---- MODULE Spec2Model ----
(***************************************************************************)
(* Model of .github/scripts/analyze_fuzz_crash.py: the classifier          *)
(* analyze_crash_type, the trace extractor extract_stack_trace, the        *)
(* reproduction step run_crash_analysis, and the report synthesis of       *)
(* generate_issue_title, generate_issue_body and main.                     *)
(*                                                                         *)
(* Python strings on which the code performs substring tests, slicing or   *)
(* splitting are sequences of one-character strings, so that `in`,         *)
(* lower(), split(), strip() and join() are computed and not assumed.      *)
(* Strings the code only copies or compares for equality (severity,        *)
(* description, target, label names) are TLA+ strings.                     *)
(***************************************************************************)
EXTENDS Integers, Sequences, FiniteSets, TLC

(***************************************************************************)
(* Bounds of the model.                                                    *)
(***************************************************************************)
\* number of vocabulary fragments concatenated into a short diagnostic text
MaxFrags == 2
\* number of repetitions of one line in a long, line-structured text
MaxRun == 21
\* number of fragments of a text in the runs checked for termination
MaxLiveFrags == 2

(***************************************************************************)
(* Trigger substrings of analyze_crash_type and extract_stack_trace.       *)
(***************************************************************************)
t_panic ==
    <<"p", "a", "n", "i", "c">>
t_panicked ==
    <<"p", "a", "n", "i", "c", "k", "e", "d">>
t_index_out_of_bounds ==
    <<"i", "n", "d", "e", "x", " ", "o", "u", "t", " ", "o", "f", " ", "b", "o", "u", "n", "d", "s">>
t_unwrap ==
    <<"u", "n", "w", "r", "a", "p">>
t_expect ==
    <<"e", "x", "p", "e", "c", "t">>
t_overflow ==
    <<"o", "v", "e", "r", "f", "l", "o", "w">>
t_underflow ==
    <<"u", "n", "d", "e", "r", "f", "l", "o", "w">>
t_slice ==
    <<"s", "l", "i", "c", "e">>
t_stack_overflow ==
    <<"s", "t", "a", "c", "k", " ", "o", "v", "e", "r", "f", "l", "o", "w">>
t_out_of_memory ==
    <<"o", "u", "t", " ", "o", "f", " ", "m", "e", "m", "o", "r", "y">>
t_oom ==
    <<"o", "o", "m">>
t_timeout ==
    <<"t", "i", "m", "e", "o", "u", "t">>
t_slow_unit ==
    <<"s", "l", "o", "w", "-", "u", "n", "i", "t">>
t_undefined_behavior ==
    <<"u", "n", "d", "e", "f", "i", "n", "e", "d", " ", "b", "e", "h", "a", "v", "i", "o", "r">>
t_ub ==
    <<"u", "b">>
t_segmentation_fault ==
    <<"s", "e", "g", "m", "e", "n", "t", "a", "t", "i", "o", "n", " ", "f", "a", "u", "l", "t">>
t_sigsegv ==
    <<"s", "i", "g", "s", "e", "g", "v">>
t_assertion_failed ==
    <<"a", "s", "s", "e", "r", "t", "i", "o", "n", " ", "f", "a", "i", "l", "e", "d">>
t_assert ==
    <<"a", "s", "s", "e", "r", "t">>
t_stack_backtrace ==
    <<"s", "t", "a", "c", "k", " ", "b", "a", "c", "k", "t", "r", "a", "c", "e", ":">>
t_at ==
    <<"a", "t", " ">>
t_colons ==
    <<":", ":">>
t_lib3mf ==
    <<"l", "i", "b", "3", "m", "f">>

(***************************************************************************)
(* Category strings returned by analyze_crash_type / set by                *)
(* run_crash_analysis.                                                     *)
(***************************************************************************)
PanicIndexOutOfBounds ==
    <<"P", "a", "n", "i", "c", ":", " ", "I", "n", "d", "e", "x", " ", "O", "u", "t", " ", "o", "f", " ", "B", "o", "u", "n", "d", "s">>
PanicUnwrap ==
    <<"P", "a", "n", "i", "c", ":", " ", "U", "n", "w", "r", "a", "p", " ", "o", "n", " ", "N", "o", "n", "e", "/", "E", "r", "r">>
PanicIntegerOverflow ==
    <<"P", "a", "n", "i", "c", ":", " ", "I", "n", "t", "e", "g", "e", "r", " ", "O", "v", "e", "r", "f", "l", "o", "w", "/", "U", "n", "d", "e", "r", "f", "l", "o", "w">>
PanicInvalidSlice ==
    <<"P", "a", "n", "i", "c", ":", " ", "I", "n", "v", "a", "l", "i", "d", " ", "S", "l", "i", "c", "e">>
PanicUnknown ==
    <<"P", "a", "n", "i", "c", ":", " ", "U", "n", "k", "n", "o", "w", "n">>
StackOverflow ==
    <<"S", "t", "a", "c", "k", " ", "O", "v", "e", "r", "f", "l", "o", "w">>
OutOfMemory ==
    <<"O", "u", "t", " ", "o", "f", " ", "M", "e", "m", "o", "r", "y">>
TimeoutHang ==
    <<"T", "i", "m", "e", "o", "u", "t", "/", "H", "a", "n", "g">>
UndefinedBehavior ==
    <<"U", "n", "d", "e", "f", "i", "n", "e", "d", " ", "B", "e", "h", "a", "v", "i", "o", "r">>
SegmentationFault ==
    <<"S", "e", "g", "m", "e", "n", "t", "a", "t", "i", "o", "n", " ", "F", "a", "u", "l", "t">>
AssertionFailure ==
    <<"A", "s", "s", "e", "r", "t", "i", "o", "n", " ", "F", "a", "i", "l", "u", "r", "e">>
UnknownCrash ==
    <<"U", "n", "k", "n", "o", "w", "n", " ", "C", "r", "a", "s", "h">>
Unknown ==
    <<"U", "n", "k", "n", "o", "w", "n">>

(***************************************************************************)
(* Substrings generate_issue_body looks for in the category.               *)
(***************************************************************************)
k_PanicIndexOutOfBounds ==
    <<"P", "a", "n", "i", "c", ":", " ", "I", "n", "d", "e", "x", " ", "O", "u", "t", " ", "o", "f", " ", "B", "o", "u", "n", "d", "s">>
k_PanicUnwrap ==
    <<"P", "a", "n", "i", "c", ":", " ", "U", "n", "w", "r", "a", "p">>
k_Overflow ==
    <<"O", "v", "e", "r", "f", "l", "o", "w">>
k_Underflow ==
    <<"U", "n", "d", "e", "r", "f", "l", "o", "w">>
k_StackOverflow ==
    <<"S", "t", "a", "c", "k", " ", "O", "v", "e", "r", "f", "l", "o", "w">>
k_OutOfMemory ==
    <<"O", "u", "t", " ", "o", "f", " ", "M", "e", "m", "o", "r", "y">>
k_Timeout ==
    <<"T", "i", "m", "e", "o", "u", "t">>

(***************************************************************************)
(* Vocabulary of the diagnostic texts the target can write to stderr.      *)
(***************************************************************************)
f_panicked ==
    <<"t", "h", "r", "e", "a", "d", " ", "p", "a", "n", "i", "c", "k", "e", "d">>
f_SIGSEGV ==
    <<"S", "I", "G", "S", "E", "G", "V">>
f_Segfault ==
    <<"S", "e", "g", "m", "e", "n", "t", "a", "t", "i", "o", "n", " ", "f", "a", "u", "l", "t">>
f_UB ==
    <<"U", "n", "d", "e", "f", "i", "n", "e", "d", " ", "B", "e", "h", "a", "v", "i", "o", "r">>
f_stack_overflow ==
    <<"s", "t", "a", "c", "k", " ", "o", "v", "e", "r", "f", "l", "o", "w">>
f_underflow ==
    <<"u", "n", "d", "e", "r", "f", "l", "o", "w">>
f_index ==
    <<"i", "n", "d", "e", "x", " ", "o", "u", "t", " ", "o", "f", " ", "b", "o", "u", "n", "d", "s">>
f_unwrap ==
    <<"u", "n", "w", "r", "a", "p">>
f_expect ==
    <<"e", "x", "p", "e", "c", "t">>
f_slice ==
    <<"s", "l", "i", "c", "e">>
f_out_of_memory ==
    <<"o", "u", "t", " ", "o", "f", " ", "m", "e", "m", "o", "r", "y">>
f_room ==
    <<"r", "o", "o", "m">>
f_timeout ==
    <<"t", "i", "m", "e", "o", "u", "t">>
f_slow_unit ==
    <<"s", "l", "o", "w", "-", "u", "n", "i", "t">>
f_double ==
    <<"d", "o", "u", "b", "l", "e">>
f_assert ==
    <<"a", "s", "s", "e", "r", "t">>
f_exit ==
    <<"e", "x", "i", "t", " ", "1">>
f_newline ==
    <<"\n">>
f_at ==
    <<"a", "t", " ", "f">>
f_path ==
    <<"a", ":", ":", "b">>
f_lib3mf ==
    <<"l", "i", "b", "3", "m", "f">>
f_backtrace ==
    <<"S", "t", "a", "c", "k", " ", "b", "a", "c", "k", "t", "r", "a", "c", "e", ":">>
f_space ==
    <<" ">>

(***************************************************************************)
(* Python string primitives, on sequences of characters.                   *)
(***************************************************************************)
UpperToLower ==
    ("A" :> "a") @@ ("B" :> "b") @@ ("C" :> "c") @@ ("D" :> "d") @@
    ("E" :> "e") @@ ("F" :> "f") @@ ("G" :> "g") @@ ("H" :> "h") @@
    ("I" :> "i") @@ ("J" :> "j") @@ ("K" :> "k") @@ ("L" :> "l") @@
    ("M" :> "m") @@ ("N" :> "n") @@ ("O" :> "o") @@ ("P" :> "p") @@
    ("Q" :> "q") @@ ("R" :> "r") @@ ("S" :> "s") @@ ("T" :> "t") @@
    ("U" :> "u") @@ ("V" :> "v") @@ ("W" :> "w") @@ ("X" :> "x") @@
    ("Y" :> "y") @@ ("Z" :> "z")

\* str.lower()
Lower(s) ==
    [i \in 1..Len(s) |-> IF s[i] \in DOMAIN UpperToLower
                         THEN UpperToLower[s[i]] ELSE s[i]]

\* s.startswith(prefix)
StartsWith(s, prefix) ==
    /\ Len(prefix) <= Len(s)
    /\ \A j \in 1..Len(prefix) : s[j] = prefix[j]

\* needle in hay
Contains(needle, hay) ==
    \E i \in 1..(Len(hay) - Len(needle) + 1) :
        \A j \in 1..Len(needle) : hay[i + j - 1] = needle[j]

Whitespace == {" ", "\n", "\t", "\r", "\f"}

RECURSIVE LStrip(_)
LStrip(s) ==
    IF s # <<>> /\ Head(s) \in Whitespace THEN LStrip(Tail(s)) ELSE s

RECURSIVE RStrip(_)
RStrip(s) ==
    IF s # <<>> /\ s[Len(s)] \in Whitespace
    THEN RStrip(SubSeq(s, 1, Len(s) - 1)) ELSE s

\* str.strip()
Strip(s) == RStrip(LStrip(s))

\* s.split('\n'): the pieces between the separators, always at least one
Split(s) ==
    LET nl == {i \in 1..Len(s) : s[i] = "\n"}
        \* position of the k-th separator; 0 before the first piece and
        \* Len(s) + 1 after the last
        pos(k) == IF k = 0 THEN 0
                  ELSE IF k > Cardinality(nl) THEN Len(s) + 1
                  ELSE CHOOSE i \in nl : Cardinality({j \in nl : j <= i}) = k
    IN  [k \in 1..(Cardinality(nl) + 1) |->
            SubSeq(s, pos(k - 1) + 1, pos(k) - 1)]

\* '\n'.join(ls)
RECURSIVE Join(_)
Join(ls) ==
    IF ls = <<>> THEN <<>>
    ELSE IF Len(ls) = 1 THEN ls[1]
    ELSE ls[1] \o <<"\n">> \o Join(Tail(ls))

Min(a, b) == IF a <= b THEN a ELSE b

\* Optional values: None, or a present value
None == <<>>
Some(v) == <<v>>

(***************************************************************************)
(* analyze_crash_type: the if/elif chain, in the order of the code.        *)
(***************************************************************************)
\* lines 91-93: the result when no rule matches
UnknownCrashResultAsDefault ==
    <<Unknown, "medium", "">>

UnknownCrashResult ==
    <<UnknownCrash, "medium",
      "Unclassified crash - requires manual analysis">>

analyze_crash_type(stderr_output) ==
    LET stderr_lower == Lower(stderr_output)
        has(t) == Contains(t, stderr_lower)
    IN  IF has(t_panic) \/ has(t_panicked) THEN
            IF has(t_index_out_of_bounds) THEN
                <<PanicIndexOutOfBounds, "medium",
                  "Array/vector access with invalid index - potential DoS">>
            ELSE IF has(t_unwrap) \/ has(t_expect) THEN
                <<PanicUnwrap, "medium",
                  "Unhandled error case - potential DoS">>
            ELSE IF has(t_overflow) \/ has(t_underflow) THEN
                <<PanicIntegerOverflow, "high",
                  "Arithmetic overflow - potential security issue">>
            ELSE IF has(t_slice) THEN
                <<PanicInvalidSlice, "medium",
                  "Slice operation on invalid range - potential DoS">>
            ELSE
                <<PanicUnknown, "medium",
                  "Unexpected panic - requires investigation">>
        ELSE IF has(t_stack_overflow) THEN
            <<StackOverflow, "high",
              "Deep recursion or infinite loop - DoS vulnerability">>
        ELSE IF has(t_out_of_memory) \/ has(t_oom) THEN
            <<OutOfMemory, "high",
              "Excessive memory allocation - DoS vulnerability">>
        ELSE IF has(t_timeout) \/ has(t_slow_unit) THEN
            <<TimeoutHang, "medium",
              "Excessive CPU usage or infinite loop - DoS risk">>
        ELSE IF has(t_undefined_behavior) \/ has(t_ub) THEN
            <<UndefinedBehavior, "critical",
              "Potential memory safety issue - CRITICAL">>
        ELSE IF has(t_segmentation_fault) \/ has(t_sigsegv) THEN
            <<SegmentationFault, "critical",
              "Memory safety violation - CRITICAL (check for unsafe code)">>
        ELSE IF has(t_assertion_failed) \/ has(t_assert) THEN
            <<AssertionFailure, "low",
              "Failed assertion - logic error">>
        ELSE
            UnknownCrashResult

(***************************************************************************)
(* extract_stack_trace.                                                    *)
(***************************************************************************)
\* the cap of the trace window and the length of the fallback tail
TraceCap == 20
TailCap == 10

\* line 103: the condition that makes a line the start of the trace
IsTraceStart(line) ==
    Contains(t_stack_backtrace, Lower(line)) \/ Contains(t_at, line)

\* lines 101-105: 1-based index of the first trace-start line, 0 if none
\* (the code's -1)
FindTraceStart(lines) ==
    IF \E i \in 1..Len(lines) : IsTraceStart(lines[i])
    THEN CHOOSE i \in 1..Len(lines) :
            /\ IsTraceStart(lines[i])
            /\ \A k \in 1..(i - 1) : ~IsTraceStart(lines[k])
    ELSE 0

\* line 112: a non-empty, frame-shaped stripped line
IsFrameLine(line) ==
    /\ line # <<>>
    /\ \/ StartsWith(line, t_at)
       \/ Contains(t_colons, line)
       \/ Contains(t_lib3mf, line)

TraceWindowEndNoCap(trace_start, n) == n

\* line 110: the last (1-based, inclusive) index of
\* range(trace_start, min(trace_start + 20, len(lines)))
TraceWindowEnd(trace_start, n) == Min(trace_start + TraceCap - 1, n)

RECURSIVE CollectTraceNoBreak(_, _, _, _)
CollectTraceNoBreak(lines, i, last, trace_lines) ==
    IF i > last THEN trace_lines
    ELSE LET line == Strip(lines[i])
         IN  IF IsFrameLine(line)
             THEN CollectTraceNoBreak(lines, i + 1, last,
                                      Append(trace_lines, line))
             ELSE CollectTraceNoBreak(lines, i + 1, last, trace_lines)

\* lines 110-116: the loop over the window, with its break
RECURSIVE CollectTrace(_, _, _, _)
CollectTrace(lines, i, last, trace_lines) ==
    IF i > last THEN trace_lines
    ELSE LET line == Strip(lines[i])
         IN  IF IsFrameLine(line)
             THEN CollectTrace(lines, i + 1, last, Append(trace_lines, line))
             ELSE IF trace_lines # <<>> /\ line = <<>>
             THEN trace_lines
             ELSE CollectTrace(lines, i + 1, last, trace_lines)

\* lines 107-116: the collected trace lines, <<>> when no start was found
TraceLines(lines) ==
    LET trace_start == FindTraceStart(lines)
    IN  IF trace_start >= 1
        THEN CollectTrace(lines, trace_start,
                          TraceWindowEnd(trace_start, Len(lines)), <<>>)
        ELSE <<>>

\* ls[-k:] of a list
LastLines(ls, k) ==
    IF Len(ls) <= k THEN ls ELSE SubSeq(ls, Len(ls) - k + 1, Len(ls))

RelevantLinesUnstripped(lines) ==
    LastLines(SelectSeq(lines, LAMBDA l : l # <<>>), TailCap)

\* line 122: the last 10 lines with a non-blank content
RelevantLines(lines) ==
    LastLines(SelectSeq(lines, LAMBDA l : Strip(l) # <<>>), TailCap)

extract_stack_trace(stderr_output) ==
    LET lines == Split(stderr_output)
        trace_lines == TraceLines(lines)
        relevant_lines == RelevantLines(lines)
    IN  IF trace_lines # <<>> THEN Some(Join(trace_lines))
        ELSE IF relevant_lines # <<>> THEN Some(Join(relevant_lines))
        ELSE None

(***************************************************************************)
(* generate_issue_title, generate_issue_body and the labels of main.       *)
(***************************************************************************)
Severities == {"critical", "high", "medium", "low"}

\* generate_issue_title: the variable parts of the f-string
\* "[Fuzzing] {crash_type} in {target} ({hash_short})"
generate_issue_title(tgt, crash_info) ==
    [ crash_type |-> crash_info.crash_type,
      target     |-> tgt,
      hash_short |-> SubSeq(crash_info.hash, 1, Min(8, Len(crash_info.hash))) ]

\* lines 186-192: priority_map.get(severity, MEDIUM)
PriorityBadge(severity) ==
    CASE severity = "critical" -> "CRITICAL"
      [] severity = "high" -> "HIGH"
      [] severity = "medium" -> "MEDIUM"
      [] severity = "low" -> "LOW"
      [] OTHER -> "MEDIUM"

\* lines 248-282: the guidance block appended under "Root Cause Analysis";
\* each block is named by what it tells the reader to review
GuidanceBlockMisspelt(crash_type) ==
    IF Contains(k_PanicUnwrap, crash_type) THEN "unwrap"
    ELSE IF Contains(k_Overflow, crash_type)
            \/ Contains(k_Underflow, crash_type) THEN "arithmetic"
    ELSE IF Contains(k_StackOverflow, crash_type) THEN "recursion"
    ELSE IF Contains(k_OutOfMemory, crash_type) THEN "memory"
    ELSE IF Contains(k_Timeout, crash_type) THEN "timeout"
    ELSE "generic"

GuidanceBlock(crash_type) ==
    IF Contains(k_PanicIndexOutOfBounds, crash_type) THEN "bounds"
    ELSE IF Contains(k_PanicUnwrap, crash_type) THEN "unwrap"
    ELSE IF Contains(k_Overflow, crash_type)
            \/ Contains(k_Underflow, crash_type) THEN "arithmetic"
    ELSE IF Contains(k_StackOverflow, crash_type) THEN "recursion"
    ELSE IF Contains(k_OutOfMemory, crash_type) THEN "memory"
    ELSE IF Contains(k_Timeout, crash_type) THEN "timeout"
    ELSE "generic"

BodyPriorityLineNoMedium(severity) ==
    IF severity = "critical" THEN "P0"
    ELSE IF severity = "high" THEN "P1"
    ELSE IF severity = "low" THEN "P3"
    ELSE "P3"

\* lines 304-311: the priority line of the Labels section
BodyPriorityLine(severity) ==
    IF severity = "critical" THEN "P0"
    ELSE IF severity = "high" THEN "P1"
    ELSE IF severity = "medium" THEN "P2"
    ELSE "P3"

\* lines 215-222: the Stack Trace section is added only for a truthy
\* stack_trace (neither None nor the empty string)
HasTraceSection(stack_trace) ==
    stack_trace # None /\ stack_trace[1] # <<>>

\* generate_issue_body: the variable parts of the body, in the order in
\* which they are composed into the text
generate_issue_body(tgt, crash_info, an) ==
    [ priority_badge |-> PriorityBadge(an.severity),
      crash_type     |-> an.crash_type,
      target         |-> tgt,
      artifact       |-> crash_info.file,
      artifact_hash  |-> crash_info.hash,
      artifact_size  |-> crash_info.size,
      description    |-> an.description,
      stack_trace    |-> IF HasTraceSection(an.stack_trace)
                         THEN an.stack_trace ELSE None,
      repro_target   |-> tgt,
      guidance       |-> GuidanceBlock(an.crash_type),
      priority_line  |-> BodyPriorityLine(an.severity) ]

\* lines 361-369: severity_to_priority.get(severity), None as <<>>
PriorityLabel(severity) ==
    CASE severity = "critical" -> <<"P0">>
      [] severity = "high" -> <<"P1">>
      [] severity = "medium" -> <<"P2">>
      [] severity = "low" -> <<"P3">>
      [] OTHER -> <<>>

SecurityLabelCriticalOnly(severity) ==
    IF severity \in {"critical"} THEN <<"security">> ELSE <<>>

\* lines 372-373
SecurityLabel(severity) ==
    IF severity \in {"high", "critical"} THEN <<"security">> ELSE <<>>

\* lines 355-373: the label list of the output record
Labels(severity) ==
    <<"bug", "fuzzing">> \o PriorityLabel(severity) \o SecurityLabel(severity)

(***************************************************************************)
(* Inputs: the command line, the file system, and what the target writes   *)
(* to its standard error when it is run on the artifact.                   *)
(***************************************************************************)
Fragments ==
    { f_panicked, f_SIGSEGV, f_Segfault, f_UB, f_stack_overflow, f_underflow,
      f_index, f_unwrap, f_expect, f_slice, f_out_of_memory, f_room,
      f_timeout, f_slow_unit, f_double, f_assert, f_exit, f_newline, f_at,
      f_path, f_lib3mf, f_backtrace, f_space }

RECURSIVE Flatten(_)
Flatten(ss) == IF ss = <<>> THEN <<>> ELSE Head(ss) \o Flatten(Tail(ss))

\* texts made of at most MaxFrags fragments, the empty text included
ShortTexts ==
    { Flatten(fs) : fs \in UNION { [1..n -> Fragments] : n \in 0..MaxFrags } }

RECURSIVE Repeat(_, _)
Repeat(s, n) == IF n = 0 THEN <<>> ELSE s \o Repeat(s, n - 1)

\* one line, a note line followed by a frame line, or a frame line followed
\* by an empty line
LineUnits ==
    { f_at \o f_newline, f_path \o f_newline, f_exit \o f_newline,
      f_space \o f_newline, f_exit \o f_newline \o f_at \o f_newline,
      f_at \o f_newline \o f_newline }

\* texts of many lines: a head, one unit repeated, a tail
LongTexts ==
    { head \o Repeat(unit, n) \o tail :
        head \in { <<>>, f_backtrace \o f_newline, f_panicked \o f_newline },
        unit \in LineUnits,
        n \in 1..MaxRun,
        tail \in { <<>>, f_exit } }

Texts == ShortTexts \cup LongTexts

Targets == { "parse_3mf" }

\* the artifacts on disk: name, size and the first 16 hex digits of the
\* SHA-256 of the content (get_crash_info)
FileSystem ==
    "crash-1" :>
        [ size |-> 3,
          hash |-> <<"9", "f", "8", "6", "d", "0", "8", "1",
                     "8", "8", "4", "c", "7", "d", "6", "5">> ] @@
    "crash-2" :>
        [ size |-> 7,
          hash |-> <<"2", "c", "2", "6", "b", "4", "6", "b",
                     "6", "8", "f", "f", "c", "6", "8", "f">> ]

Argvs ==
    { <<"analyze_fuzz_crash.py">>,
      <<"analyze_fuzz_crash.py", "parse_3mf", "crash-1">>,
      <<"analyze_fuzz_crash.py", "parse_3mf", "crash-missing">> }

\* exit statuses of the target: clean exit, Rust panic, killed by SIGSEGV
ReturnCodes == { 0, 101, -11 }

\* GITHUB_OUTPUT: unset, a file in an existing directory, a file in a
\* directory that does not exist
OutputEnvs == { "unset", "file", "no-parent" }

(***************************************************************************)
(* State.                                                                  *)
(***************************************************************************)
VARIABLES
    pc,             \* position of main
    argv,           \* sys.argv
    text,           \* what the target writes to stderr when it is run
    crash_info,     \* get_crash_info's result
    run_result,     \* how subprocess.run ended: its result or its exception
    analysis,       \* run_crash_analysis's dict
    called,         \* which of the two text analyses the run invoked
    output,         \* the issue record built by main
    tool_stderr,    \* messages main and run_crash_analysis print to stderr
    github_output,  \* lines appended to the GITHUB_OUTPUT file
    json_file,      \* content of /tmp/issue_output.json
    exit_status,    \* exit status of the script
    other           \* a second invocation of the script, when there is one

vars == << pc, argv, text, crash_info, run_result, analysis, called, output,
           tool_stderr, github_output, json_file, exit_status, other >>

\* lines 130-137
DefaultAnalysis ==
    [ reproduced  |-> FALSE,
      stderr      |-> <<>>,
      crash_type  |-> Unknown,
      severity    |-> "medium",
      description |-> "",
      stack_trace |-> None ]

\* no second invocation
NoOther == [ pc |-> "absent" ]

Init ==
    /\ pc = "start"
    /\ argv \in Argvs
    /\ text \in Texts
    /\ crash_info = None
    /\ run_result = None
    /\ analysis = None
    /\ called = {}
    /\ output = None
    /\ tool_stderr = <<>>
    /\ github_output = <<>>
    /\ json_file = None
    /\ exit_status = None
    /\ other = NoOther

(***************************************************************************)
(* main, lines 327-345.                                                    *)
(***************************************************************************)
UsageError ==
    /\ pc = "start"
    /\ Len(argv) < 3
    /\ tool_stderr' = Append(tool_stderr, "Usage")
    /\ exit_status' = Some(1)
    /\ pc' = "exit"
    /\ UNCHANGED << other, argv, text, crash_info, run_result, analysis, called, output,
                    github_output, json_file >>

ArtifactNotFound ==
    /\ pc = "start"
    /\ Len(argv) >= 3
    /\ argv[3] \notin DOMAIN FileSystem
    /\ tool_stderr' = Append(tool_stderr, "Error: Artifact not found")
    /\ exit_status' = Some(1)
    /\ pc' = "exit"
    /\ UNCHANGED << other, argv, text, crash_info, run_result, analysis, called, output,
                    github_output, json_file >>

\* get_crash_info, lines 21-29
get_crash_info(artifact_path) ==
    [ file |-> artifact_path,
      path |-> artifact_path,
      size |-> FileSystem[artifact_path].size,
      hash |-> FileSystem[artifact_path].hash ]

GetCrashInfo ==
    /\ pc = "start"
    /\ Len(argv) >= 3
    /\ argv[3] \in DOMAIN FileSystem
    /\ crash_info' = Some(get_crash_info(argv[3]))
    /\ pc' = "reproduce"
    /\ UNCHANGED << other, argv, text, run_result, analysis, called, output,
                    tool_stderr, github_output, json_file, exit_status >>

(***************************************************************************)
(* run_crash_analysis, one action per outcome of subprocess.run.           *)
(***************************************************************************)
AnalysisOfRunPositiveOnly(returncode, stderr) ==
    LET base == [ DefaultAnalysis EXCEPT !.stderr = stderr,
                                         !.reproduced = (returncode > 0) ]
        triple == analyze_crash_type(stderr)
    IN  IF stderr # <<>>
        THEN [ base EXCEPT !.crash_type = triple[1],
                           !.severity = triple[2],
                           !.description = triple[3],
                           !.stack_trace = extract_stack_trace(stderr) ]
        ELSE base

\* lines 149-158: the target ran to its end within the timeout
AnalysisOfRun(returncode, stderr) ==
    LET base == [ DefaultAnalysis EXCEPT !.stderr = stderr,
                                         !.reproduced = (returncode # 0) ]
        triple == analyze_crash_type(stderr)
    IN  IF stderr # <<>>
        THEN [ base EXCEPT !.crash_type = triple[1],
                           !.severity = triple[2],
                           !.description = triple[3],
                           !.stack_trace = extract_stack_trace(stderr) ]
        ELSE base

RunExits ==
    /\ pc = "reproduce"
    /\ \E returncode \in ReturnCodes :
          /\ run_result' = Some([ kind |-> "completed",
                                  returncode |-> returncode ])
          /\ analysis' = Some(AnalysisOfRun(returncode, text))
    /\ called' = IF text # <<>>
                 THEN called \cup {"analyze_crash_type", "extract_stack_trace"}
                 ELSE called
    /\ pc' = "analyzed"
    /\ UNCHANGED << other, argv, text, crash_info, output, tool_stderr,
                    github_output, json_file, exit_status >>

AnalysisOfTimeoutNotReproduced ==
    [ DefaultAnalysis EXCEPT
        !.crash_type = TimeoutHang,
        !.severity = "medium",
        !.description = "Crash reproduction timed out - possible infinite loop" ]

\* lines 160-164: subprocess.TimeoutExpired
AnalysisOfTimeout ==
    [ DefaultAnalysis EXCEPT
        !.crash_type = TimeoutHang,
        !.severity = "medium",
        !.description = "Crash reproduction timed out - possible infinite loop",
        !.reproduced = TRUE ]

RunTimesOut ==
    /\ pc = "reproduce"
    /\ run_result' = Some([ kind |-> "TimeoutExpired" ])
    /\ analysis' = Some(AnalysisOfTimeout)
    /\ pc' = "analyzed"
    /\ UNCHANGED << other, argv, text, crash_info, called, output, tool_stderr,
                    github_output, json_file, exit_status >>

RunFailsToStartAborts ==
    /\ pc = "reproduce"
    /\ run_result' = Some([ kind |-> "Exception" ])
    /\ tool_stderr' = Append(tool_stderr, "Traceback")
    /\ exit_status' = Some(1)
    /\ pc' = "exit"
    /\ UNCHANGED << other, argv, text, crash_info, analysis, called, output,
                    github_output, json_file >>

\* lines 165-166: any other exception of subprocess.run (cargo not found)
RunFailsToStart ==
    /\ pc = "reproduce"
    /\ run_result' = Some([ kind |-> "Exception" ])
    /\ analysis' = Some(DefaultAnalysis)
    /\ tool_stderr' = Append(tool_stderr, "Warning: Could not run crash analysis")
    /\ pc' = "analyzed"
    /\ UNCHANGED << other, argv, text, crash_info, called, output,
                    github_output, json_file, exit_status >>

(***************************************************************************)
(* main, lines 347-394.                                                    *)
(***************************************************************************)
\* lines 347-373
IssueRecord(tgt, info, an) ==
    [ title      |-> generate_issue_title(tgt, [ crash_type |-> an.crash_type,
                                                hash |-> info.hash ]),
      body       |-> generate_issue_body(tgt, info, an),
      labels     |-> Labels(an.severity),
      severity   |-> an.severity,
      crash_type |-> an.crash_type ]

GenerateIssue ==
    /\ pc = "analyzed"
    /\ output' = Some(IssueRecord(argv[2], crash_info[1], analysis[1]))
    /\ pc' = "generated"
    /\ UNCHANGED << other, argv, text, crash_info, run_result, analysis, called, tool_stderr,
                    github_output, json_file, exit_status >>

\* lines 378-394
WriteOutput ==
    /\ pc = "generated"
    /\ \E env \in OutputEnvs :
          /\ github_output' =
                IF env = "file"
                THEN github_output \o
                     << <<"issue_title", output[1].title>>,
                        <<"issue_body", output[1].body>>,
                        <<"issue_labels", output[1].labels>>,
                        <<"severity", output[1].severity>> >>
                ELSE github_output
          /\ json_file' = IF env \in {"unset", "file"}
                          THEN output ELSE json_file
    /\ exit_status' = Some(0)
    /\ pc' = "exit"
    /\ UNCHANGED << other, argv, text, crash_info, run_result, analysis, called, output,
                    tool_stderr >>

Next ==
    \/ UsageError
    \/ ArtifactNotFound
    \/ GetCrashInfo
    \/ RunExits
    \/ RunTimesOut
    \/ RunFailsToStart
    \/ GenerateIssue
    \/ WriteOutput

Spec == Init /\ [][Next]_vars

\* main is one sequential thread and its only blocking call, subprocess.run,
\* returns or raises within its timeout of 10 seconds (line 146): a step
\* that is possible is eventually taken
\* the runs are those of main on a few short texts
LiveFragments == { f_panicked, f_SIGSEGV, f_exit }

LiveTexts ==
    { Flatten(fs) :
        fs \in UNION { [1..n -> LiveFragments] : n \in 0..MaxLiveFrags } }

InitLive == Init /\ text \in LiveTexts

SpecLive == InitLive /\ [][Next]_vars /\ WF_vars(Next)

(***************************************************************************)
(* The two text analyses called directly on a text, as a unit test calls   *)
(* them: analysis holds the text and what each function returned for it.   *)
(***************************************************************************)
InitFn ==
    /\ pc = "call"
    /\ argv = <<"analyze_fuzz_crash.py">>
    /\ text \in Texts
    /\ crash_info = None
    /\ run_result = None
    /\ analysis = Some([ DefaultAnalysis EXCEPT !.stderr = text ])
    /\ called = {}
    /\ output = None
    /\ tool_stderr = <<>>
    /\ github_output = <<>>
    /\ json_file = None
    /\ exit_status = None
    /\ other = NoOther

CallAnalyzeCrashType ==
    /\ pc = "call"
    /\ "analyze_crash_type" \notin called
    /\ LET triple == analyze_crash_type(text)
       IN  analysis' = Some([ analysis[1] EXCEPT !.crash_type = triple[1],
                                                 !.severity = triple[2],
                                                 !.description = triple[3] ])
    /\ called' = called \cup {"analyze_crash_type"}
    /\ UNCHANGED << other, pc, argv, text, crash_info, run_result, output,
                    tool_stderr, github_output, json_file, exit_status >>

CallExtractStackTrace ==
    /\ pc = "call"
    /\ "extract_stack_trace" \notin called
    /\ analysis' = Some([ analysis[1] EXCEPT
                            !.stack_trace = extract_stack_trace(text) ])
    /\ called' = called \cup {"extract_stack_trace"}
    /\ UNCHANGED << other, pc, argv, text, crash_info, run_result, output,
                    tool_stderr, github_output, json_file, exit_status >>

NextFn ==
    \/ CallAnalyzeCrashType
    \/ CallExtractStackTrace

SpecFn == InitFn /\ [][NextFn]_vars


(***************************************************************************)
(* Two invocations of the script running at the same time on two different *)
(* artifacts.  The first is the one of the actions above; the second keeps *)
(* its own variables in the record other and takes the same steps.  The    *)
(* two are separate processes: they share only the file system, that is    *)
(* the file GITHUB_OUTPUT names (inherited from the same job) and the      *)
(* fixed path /tmp/issue_output.json.  The writes of one WriteOutput are   *)
(* taken as one step.                                                      *)
(***************************************************************************)
ParTexts == { <<>>, f_SIGSEGV }

InitPar ==
    /\ pc = "start"
    /\ argv = <<"analyze_fuzz_crash.py", "parse_3mf", "crash-1">>
    /\ text \in ParTexts
    /\ crash_info = None
    /\ run_result = None
    /\ analysis = None
    /\ called = {}
    /\ output = None
    /\ tool_stderr = <<>>
    /\ github_output = <<>>
    /\ json_file = None
    /\ exit_status = None
    /\ \E t \in ParTexts :
          other = [ pc          |-> "start",
                    argv        |-> <<"analyze_fuzz_crash.py", "parse_3mf",
                                      "crash-2">>,
                    text        |-> t,
                    crash_info  |-> None,
                    run_result  |-> None,
                    analysis    |-> None,
                    output      |-> None,
                    exit_status |-> None ]

\* the variables of the first invocation, and the two shared files
own == << pc, argv, text, crash_info, run_result, analysis, called, output,
          tool_stderr, exit_status >>

files == << github_output, json_file >>

\* main, lines 334-345
OtherGetCrashInfo ==
    /\ other.pc = "start"
    /\ Len(other.argv) >= 3
    /\ other.argv[3] \in DOMAIN FileSystem
    /\ other' = [ other EXCEPT
                    !.crash_info = Some(get_crash_info(other.argv[3])),
                    !.pc = "reproduce" ]
    /\ UNCHANGED << own, files >>

\* run_crash_analysis, lines 139-158
OtherRunExits ==
    /\ other.pc = "reproduce"
    /\ \E returncode \in ReturnCodes :
          other' = [ other EXCEPT
                       !.run_result = Some([ kind |-> "completed",
                                             returncode |-> returncode ]),
                       !.analysis = Some(AnalysisOfRun(returncode, other.text)),
                       !.pc = "analyzed" ]
    /\ UNCHANGED << own, files >>

\* run_crash_analysis, lines 160-164
OtherRunTimesOut ==
    /\ other.pc = "reproduce"
    /\ other' = [ other EXCEPT
                    !.run_result = Some([ kind |-> "TimeoutExpired" ]),
                    !.analysis = Some(AnalysisOfTimeout),
                    !.pc = "analyzed" ]
    /\ UNCHANGED << own, files >>

\* run_crash_analysis, lines 165-168
OtherRunFailsToStart ==
    /\ other.pc = "reproduce"
    /\ other' = [ other EXCEPT
                    !.run_result = Some([ kind |-> "Exception" ]),
                    !.analysis = Some(DefaultAnalysis),
                    !.pc = "analyzed" ]
    /\ UNCHANGED << own, files >>

\* main, lines 347-376
OtherGenerateIssue ==
    /\ other.pc = "analyzed"
    /\ other' = [ other EXCEPT
                    !.output = Some(IssueRecord(other.argv[2],
                                                other.crash_info[1],
                                                other.analysis[1])),
                    !.pc = "generated" ]
    /\ UNCHANGED << own, files >>

\* main, lines 378-394
OtherWriteOutput ==
    /\ other.pc = "generated"
    /\ \E env \in OutputEnvs :
          /\ github_output' =
                IF env = "file"
                THEN github_output \o
                     << <<"issue_title", other.output[1].title>>,
                        <<"issue_body", other.output[1].body>>,
                        <<"issue_labels", other.output[1].labels>>,
                        <<"severity", other.output[1].severity>> >>
                ELSE github_output
          /\ json_file' = IF env \in {"unset", "file"}
                          THEN other.output ELSE json_file
    /\ other' = [ other EXCEPT !.exit_status = Some(0), !.pc = "exit" ]
    /\ UNCHANGED own

NextPar ==
    \/ GetCrashInfo
    \/ RunExits
    \/ RunTimesOut
    \/ RunFailsToStart
    \/ GenerateIssue
    \/ WriteOutput
    \/ OtherGetCrashInfo
    \/ OtherRunExits
    \/ OtherRunTimesOut
    \/ OtherRunFailsToStart
    \/ OtherGenerateIssue
    \/ OtherWriteOutput

SpecPar == InitPar /\ [][NextPar]_vars

(***************************************************************************)
(* Vocabulary of the properties.                                           *)
(***************************************************************************)
\* the trigger t occurs in s, case-insensitively
HasMarker(t, s) == Contains(t, Lower(s))

HasPanicMarker(s) == HasMarker(t_panic, s) \/ HasMarker(t_panicked, s)

HasSafetyMarker(s) ==
    \/ HasMarker(t_segmentation_fault, s)
    \/ HasMarker(t_sigsegv, s)
    \/ HasMarker(t_undefined_behavior, s)

ClassifierTriggers ==
    { t_panic, t_panicked, t_index_out_of_bounds, t_unwrap, t_expect,
      t_overflow, t_underflow, t_slice, t_stack_overflow, t_out_of_memory,
      t_oom, t_timeout, t_slow_unit, t_undefined_behavior, t_ub,
      t_segmentation_fault, t_sigsegv, t_assertion_failed, t_assert }

Categories ==
    { PanicIndexOutOfBounds, PanicUnwrap, PanicIntegerOverflow,
      PanicInvalidSlice, PanicUnknown, StackOverflow, OutOfMemory,
      TimeoutHang, UndefinedBehavior, SegmentationFault, AssertionFailure,
      UnknownCrash }

\* the number of lines of a text
LineCount(s) == Len(Split(s))

Classified == "analyze_crash_type" \in called
Extracted == "extract_stack_trace" \in called
Completed == run_result # None /\ run_result[1].kind = "completed"
TimedOut == run_result # None /\ run_result[1].kind = "TimeoutExpired"

(***************************************************************************)
(* C1: a text with a safety-violation marker (segmentation fault, sigsegv, *)
(* undefined behavior) and a panic marker is classified Segmentation Fault *)
(* or Undefined Behavior with severity critical, never as a Panic.         *)
(* Checked under SpecFn; the code tests the panic markers first.           *)
(***************************************************************************)
C1_SafetyOutranksPanic ==
    (Classified /\ HasSafetyMarker(text) /\ HasPanicMarker(text))
        => /\ analysis[1].crash_type \in {SegmentationFault, UndefinedBehavior}
           /\ analysis[1].severity = "critical"

(***************************************************************************)
(* C2: analyze_crash_type returns, for every text, the empty one included, *)
(* one triple of a category of the taxonomy, a severity among critical,    *)
(* high, medium, low, and a description; a text with none of the trigger   *)
(* substrings yields Unknown Crash with severity medium.  Checked under    *)
(* SpecFn.                                                                 *)
(***************************************************************************)
C2_ClassifierTotal ==
    Classified
        => /\ analysis[1].crash_type \in Categories
           /\ analysis[1].severity \in Severities
           /\ analysis[1].description # ""
           /\ (\A t \in ClassifierTriggers : ~HasMarker(t, text))
                 => /\ analysis[1].crash_type = UnknownCrash
                    /\ analysis[1].severity = "medium"

C2_Witness ==
    /\ Classified
    /\ text = <<>>
    /\ analysis[1].crash_type = UnknownCrash
    /\ analysis[1].severity = "medium"

(***************************************************************************)
(* C3: when the reproduction times out, the analysis is Timeout/Hang,      *)
(* medium, reproduced, whatever the target would have written, and neither *)
(* analyze_crash_type nor extract_stack_trace has been called.             *)
(***************************************************************************)
C3_TimeoutShortCircuit ==
    TimedOut
        => /\ analysis[1].crash_type = TimeoutHang
           /\ analysis[1].severity = "medium"
           /\ analysis[1].reproduced = TRUE
           /\ analysis[1].stack_trace = None
           /\ called = {}

C3_Witness ==
    /\ TimedOut
    /\ HasMarker(t_sigsegv, text)
    /\ analyze_crash_type(text)[1] = SegmentationFault
    /\ analysis[1].crash_type = TimeoutHang

(***************************************************************************)
(* C4: the labels of every issue record contain bug and fuzzing, exactly   *)
(* one of P0..P3, the one of the record's severity (critical P0, high P1,  *)
(* medium P2, low P3), and security exactly for high and critical.         *)
(***************************************************************************)
PriorityLabels == {"P0", "P1", "P2", "P3"}

PriorityOf(severity) ==
    CASE severity = "critical" -> "P0"
      [] severity = "high" -> "P1"
      [] severity = "medium" -> "P2"
      [] severity = "low" -> "P3"

C4_LabelTotality ==
    output # None
        => LET labels == output[1].labels
               severity == output[1].severity
               count(l) == Cardinality({i \in 1..Len(labels) : labels[i] = l})
           IN  /\ severity \in Severities
               /\ count("bug") >= 1
               /\ count("fuzzing") >= 1
               /\ \A p \in PriorityLabels :
                     count(p) = IF p = PriorityOf(severity) THEN 1 ELSE 0
               /\ (count("security") >= 1) <=> (severity \in {"high", "critical"})

C4_Witness ==
    /\ output # None
    /\ output[1].severity = "high"
    /\ output[1].labels = <<"bug", "fuzzing", "P1", "security">>

(***************************************************************************)
(* C5: the excerpt of extract_stack_trace has at most 20 lines when it is  *)
(* made of the lines collected from a trace start, and at most 10 lines    *)
(* when it is the fallback tail.  Checked under SpecFn.                    *)
(***************************************************************************)
C5_ExcerptLength ==
    (Extracted /\ analysis[1].stack_trace # None)
        => IF TraceLines(Split(text)) # <<>>
           THEN LineCount(analysis[1].stack_trace[1]) <= 20
           ELSE LineCount(analysis[1].stack_trace[1]) <= 10

C5_Witness ==
    /\ Extracted
    /\ analysis[1].stack_trace # None
    /\ TraceLines(Split(text)) # <<>>
    /\ LineCount(analysis[1].stack_trace[1]) = 20
    /\ Len(SelectSeq(Split(text), LAMBDA l : IsFrameLine(Strip(l)))) > 20

(***************************************************************************)
(* C6: the guidance block of the body is the one of the category's own     *)
(* family: Stack Overflow the recursion block, Out of Memory the memory    *)
(* block, Timeout/Hang the timeout block, Integer Overflow/Underflow the   *)
(* arithmetic block, Index Out of Bounds the bounds block, Unwrap the      *)
(* unwrap block, every other category the generic block.                   *)
(***************************************************************************)
FamilyBlock(crash_type) ==
    CASE crash_type = StackOverflow -> "recursion"
      [] crash_type = OutOfMemory -> "memory"
      [] crash_type = TimeoutHang -> "timeout"
      [] crash_type = PanicIntegerOverflow -> "arithmetic"
      [] crash_type = PanicIndexOutOfBounds -> "bounds"
      [] crash_type = PanicUnwrap -> "unwrap"
      [] OTHER -> "generic"

C6_GuidanceOfOwnFamily ==
    output # None
        => output[1].body.guidance = FamilyBlock(output[1].crash_type)

(***************************************************************************)
(* C7: when the target runs to its end and writes nothing to stderr, the   *)
(* issue record has category Unknown Crash and severity medium, and there  *)
(* is no trace excerpt and no trace section in the body.                   *)
(***************************************************************************)
C7_EmptyTextIsUnknownCrash ==
    (Completed /\ analysis[1].stderr = <<>> /\ output # None)
        => /\ output[1].crash_type = UnknownCrash
           /\ output[1].severity = "medium"
           /\ analysis[1].stack_trace = None
           /\ output[1].body.stack_trace = None

(***************************************************************************)
(* C8: a captured text with a panic marker and "index out of bounds"       *)
(* gives category Panic: Index Out of Bounds, severity medium, the bounds  *)
(* guidance block, and the labels bug, fuzzing, P2 and no other.           *)
(***************************************************************************)
C8_IndexOutOfBoundsScenario ==
    (/\ Completed
     /\ output # None
     /\ HasPanicMarker(analysis[1].stderr)
     /\ HasMarker(t_index_out_of_bounds, analysis[1].stderr))
        => /\ output[1].crash_type = PanicIndexOutOfBounds
           /\ output[1].severity = "medium"
           /\ output[1].body.guidance = "bounds"
           /\ output[1].labels = <<"bug", "fuzzing", "P2">>

C8_Witness ==
    /\ Completed
    /\ output # None
    /\ HasPanicMarker(analysis[1].stderr)
    /\ HasMarker(t_index_out_of_bounds, analysis[1].stderr)
    /\ output[1].body.guidance = "bounds"

(***************************************************************************)
(* C9: a text containing "stack overflow", with or without a panic marker, *)
(* is classified Stack Overflow with severity high, unless it also         *)
(* contains "undefined behavior", "segmentation fault" or "sigsegv".       *)
(* Checked under SpecFn; with a panic marker the code takes the panic      *)
(* branch, where "overflow" selects Integer Overflow/Underflow.            *)
(***************************************************************************)
C9_StackOverflowFirst ==
    (Classified /\ HasMarker(t_stack_overflow, text) /\ ~HasSafetyMarker(text))
        => /\ analysis[1].crash_type = StackOverflow
           /\ analysis[1].severity = "high"

(***************************************************************************)
(* C10: only a text containing "undefined behavior" is classified          *)
(* Undefined Behavior.  Checked under SpecFn; the code also accepts the    *)
(* two letters "ub" anywhere in the text.                                  *)
(***************************************************************************)
C10_UndefinedBehaviorOnlyByName ==
    (Classified /\ analysis[1].crash_type = UndefinedBehavior)
        => HasMarker(t_undefined_behavior, text)

(***************************************************************************)
(* C11: extract_stack_trace returns None exactly for the texts without a   *)
(* line that has a non-whitespace character; for every other text it       *)
(* returns a non-empty excerpt.  Checked under SpecFn.                     *)
(***************************************************************************)
HasNonBlankLine(s) ==
    \E i \in 1..Len(s) : s[i] \notin Whitespace

C11_AbsentIffBlank ==
    Extracted
        => /\ (analysis[1].stack_trace = None) <=> ~HasNonBlankLine(text)
           /\ analysis[1].stack_trace # None
                 => analysis[1].stack_trace[1] # <<>>

C11_Witness ==
    /\ Extracted
    /\ text # <<>>
    /\ ~HasNonBlankLine(text)
    /\ LineCount(text) > 1
    /\ analysis[1].stack_trace = None

(***************************************************************************)
(* C12: once the artifact exists, whatever the outcome of the single       *)
(* reproduction attempt, main eventually exits with status 0 having built  *)
(* one issue record with title, body, severity, category and labels, and   *)
(* never replaces it; when the runner cannot be started the record has the *)
(* default classification Unknown, medium.  Checked under SpecLive.        *)
(***************************************************************************)
FailedToStart == run_result # None /\ run_result[1].kind = "Exception"

HasIssueRecord ==
    /\ output # None
    /\ DOMAIN output[1] = {"title", "body", "severity", "crash_type", "labels"}

C12_TerminatesWithRecord ==
    /\ (pc = "reproduce") ~> (pc = "exit" /\ exit_status = Some(0)
                                /\ HasIssueRecord)
    /\ []((FailedToStart /\ output # None)
             => /\ output[1].crash_type = Unknown
                /\ output[1].severity = "medium")
    /\ [][output # None => output' = output]_vars

C12_Witness ==
    /\ pc = "exit"
    /\ exit_status = Some(0)
    /\ FailedToStart
    /\ HasIssueRecord
    /\ output[1].crash_type = Unknown
    /\ output[1].severity = "medium"

(***************************************************************************)
(* C13: two invocations running at the same time on different artifacts do *)
(* not affect each other: the record each one builds is the one of its own *)
(* target, artifact and reproduction result, and the record an invocation  *)
(* has written to /tmp/issue_output.json on exit stays the one in that     *)
(* file.  Checked under SpecPar; both invocations write the same file.     *)
(***************************************************************************)
OwnRecordBuilt ==
    /\ output # None
          => output[1] = IssueRecord(argv[2], get_crash_info(argv[3]),
                                     analysis[1])
    /\ other.output # None
          => other.output[1] = IssueRecord(other.argv[2],
                                           get_crash_info(other.argv[3]),
                                           other.analysis[1])

EmittedRecordStays ==
    /\ (pc = "exit" /\ output # None /\ json_file = output)
          => json_file' = output
    /\ (other.pc = "exit" /\ other.output # None /\ json_file = other.output)
          => json_file' = other.output

C13_ConcurrentInvocationsIndependent ==
    []OwnRecordBuilt /\ [][EmittedRecordStays]_vars

(***************************************************************************)
(* C14: the reproduced flag of the analysis is true when the target exits  *)
(* with a non-zero status or the attempt times out, and false when the     *)
(* target exits with status 0 or the runner cannot be started.             *)
(***************************************************************************)
C14_ReproducedFlag ==
    (run_result # None /\ analysis # None)
        => analysis[1].reproduced =
              CASE Completed -> run_result[1].returncode # 0
                [] TimedOut -> TRUE
                [] FailedToStart -> FALSE

C14_Witness ==
    /\ Completed
    /\ run_result[1].returncode < 0
    /\ analysis[1].reproduced = TRUE

(***************************************************************************)
(* C15: when a trace start is found, the excerpt is made of the            *)
(* frame-shaped lines that follow it, in order, up to the first blank line *)
(* after a collected frame line.                                           *)
(*                                                                         *)
(* As claimed: the first 20 frame-shaped lines from the trace start on,    *)
(* the other non-empty lines not counting against the 20.                  *)
(* As the code does it: the frame-shaped lines among the 20 lines that     *)
(* begin at the trace start, every line of the text counting against the   *)
(* 20.  Checked under SpecFn.                                              *)
(***************************************************************************)
\* the stripped lines a..b of the text
StrippedLines(lines, a, b) ==
    [k \in 1..(b - a + 1) |-> Strip(lines[a + k - 1])]

\* the first blank line of a..b that has a frame-shaped line of a..b before
\* it, b + 1 if there is none
FirstBlankAfterFrame(lines, a, b) ==
    LET stops == {i \in a..b :
                    /\ Strip(lines[i]) = <<>>
                    /\ \E j \in a..(i - 1) : IsFrameLine(Strip(lines[j]))}
    IN  IF stops = {} THEN b + 1
        ELSE CHOOSE i \in stops : \A k \in stops : i <= k

\* the frame-shaped lines of a..b before that blank line
FramesOf(lines, a, b) ==
    SelectSeq(StrippedLines(lines, a, FirstBlankAfterFrame(lines, a, b) - 1),
              IsFrameLine)

FirstOf(ls, k) == SubSeq(ls, 1, Min(k, Len(ls)))

\* the excerpt lines as claimed, and as taken from the window of 20 lines
ClaimedFrames(lines) ==
    FirstOf(FramesOf(lines, FindTraceStart(lines), Len(lines)), 20)

WindowFrames(lines) ==
    FramesOf(lines, FindTraceStart(lines),
             Min(FindTraceStart(lines) + 19, Len(lines)))

C15_ExcerptIsFirstTwentyFrames ==
    (/\ Extracted
     /\ FindTraceStart(Split(text)) >= 1
     /\ ClaimedFrames(Split(text)) # <<>>)
        => analysis[1].stack_trace = Some(Join(ClaimedFrames(Split(text))))

C15_ExcerptIsFramesOfWindow ==
    (/\ Extracted
     /\ FindTraceStart(Split(text)) >= 1
     /\ WindowFrames(Split(text)) # <<>>)
        => analysis[1].stack_trace = Some(Join(WindowFrames(Split(text))))

C15_Witness ==
    /\ Extracted
    /\ FindTraceStart(Split(text)) >= 1
    /\ WindowFrames(Split(text)) # <<>>
    /\ Len(WindowFrames(Split(text))) < Len(ClaimedFrames(Split(text)))
    /\ analysis[1].stack_trace = Some(Join(WindowFrames(Split(text))))

(***************************************************************************)
(* C16: in every issue record the category of the title, the Crash Type of *)
(* the body and the crash_type field are the same string, and the priority *)
(* line of the body names the priority label that is in the label list,    *)
(* the one of the record's severity.                                       *)
(***************************************************************************)
C16_RecordConsistent ==
    output # None
        => LET r == output[1]
           IN  /\ r.title.crash_type = r.crash_type
               /\ r.body.crash_type = r.crash_type
               /\ r.body.priority_line = PriorityOf(r.severity)
               /\ \E i \in 1..Len(r.labels) :
                     r.labels[i] = r.body.priority_line
               /\ \A i \in 1..Len(r.labels) :
                     r.labels[i] \in PriorityLabels
                        => r.labels[i] = r.body.priority_line

C16_Witness ==
    /\ output # None
    /\ FailedToStart
    /\ output[1].title.crash_type = Unknown
    /\ output[1].body.crash_type = Unknown
    /\ output[1].body.priority_line = "P2"
    /\ output[1].labels = <<"bug", "fuzzing", "P2">>
====
